---- MODULE Spec2Model ----
(***************************************************************************)
(* Model of scripts/migrate_data.py: DataMigrator.run and the table copy  *)
(* loop of DataMigrator.migrate_table, together with the part of the      *)
(* destination session (psycopg connection, autocommit off) that the code *)
(* drives through execute / commit / rollback / close.                    *)
(*                                                                         *)
(* The destination session is modelled with PostgreSQL's transaction      *)
(* rules: the first statement opens a transaction; a statement the server *)
(* rejects puts the transaction in the aborted state, in which every      *)
(* further statement is rejected until the transaction ends; COMMIT of an *)
(* aborted transaction rolls it back; closing the connection discards the *)
(* open transaction.                                                       *)
(*                                                                         *)
(* A row is kept as its key and the fate of its insert; column values and *)
(* convert_row_data's decoding of binary values are not part of the model.*)
(* Environment faults are a failing connect, a failing source query       *)
(* (get_table_info, batch fetch), a failing commit and a failing rollback.*)
(***************************************************************************)
EXTENDS Integers, Sequences, FiniteSets, TLC

\* Bounds of the model.
MaxRows == 2        \* rows held by the source database, all tables together
MaxBatch == 2       \* --batch-size ranges over 1..MaxBatch

\* The source catalog: two application tables and one framework table.
UserTables == {"accounts", "orders"}
Catalogs ==
    { <<"django_session">>,
      <<"accounts", "django_session">>,
      <<"accounts", "django_session", "orders">> }

\* A source row is its key and what the destination does with it:
\*   "ok"      the insert is accepted,
\*   "client"  the driver rejects the parameters before sending anything,
\*   "server"  the server rejects the statement (bad value for the column).
Kinds == {"ok", "client", "server"}

\* Primary-key columns of a table, by how the sequence resync ends for each:
\* "serial" has a sequence, "uuid" makes the setval statement fail.
PkChoices == { <<>>, <<"serial">>, <<"uuid", "serial">> }

\* What the operator may type at the confirmation prompt.
Inputs == {"yes", "YES", "y", "no"}

VARIABLES
    dry_run, batch_size,        \* DataMigrator.__init__ arguments
    all_tables, src, pks,       \* source database: catalog, rows, key columns
    destExists,                 \* destination catalog
    pg,                         \* destination session: durable, work, txn
    mysql_conn, postgres_conn,  \* "none" | "failed" | "open" | "closed"
    stats,                      \* self.stats
    pc, tables, idx, confirm, runExit,            \* run()
    row_count, offset, migrated_rows, result, entry, \* migrate_table()
    destLog,                    \* statements issued to the destination
    called,                     \* tables migrate_table was called with
    faulted,                    \* an environment fault happened in this run
    runNo, first                \* invocation number, record of the first

vars == << dry_run, batch_size, all_tables, src, pks, destExists, pg,
           mysql_conn, postgres_conn, stats, pc, tables, idx, confirm,
           runExit, row_count, offset, migrated_rows, result, entry,
           destLog, called, faulted, runNo, first >>

config == << dry_run, batch_size, all_tables, src, pks, destExists >>
locals == << row_count, offset, migrated_rows, result, entry >>

Min(a, b) == IF a < b THEN a ELSE b

\* The value of migrate_table's row_count before get_table_info has returned.
Unbound == 0 - 1

RECURSIVE SumLen(_, _)
SumLen(f, S) ==
    IF S = {} THEN 0
    ELSE LET t == CHOOSE x \in S : TRUE IN Len(f[t]) + SumLen(f, S \ {t})

RECURSIVE SeqMax(_)
SeqMax(s) ==
    IF s = <<>> THEN 0
    ELSE LET m == SeqMax(Tail(s)) IN IF Head(s) > m THEN Head(s) ELSE m

InSeq(x, s) == \E i \in 1..Len(s) : s[i] = x
SelectOut(s, S) == SelectSeq(s, LAMBDA x : x \notin S)

RowSeqs ==
    UNION { { [i \in 1..n |-> [k |-> i, kind |-> f[i]]] : f \in [1..n -> Kinds] }
            : n \in 0..MaxRows }

----------------------------------------------------------------------------
\* DataMigrator.__init__: the statistics of a new migrator.
InitStats ==
    [tables_migrated |-> 0, tables_skipped |-> 0, total_rows |-> 0,
     failed_tables |-> <<>>]

\* Faulty variant: a skipped table is counted as migrated
SkipStatsAsMigrated(st) == [st EXCEPT !.tables_migrated = @ + 1]

\* self.stats["tables_skipped"] += 1
SkipStats(st) == [st EXCEPT !.tables_skipped = @ + 1]

\* self.stats["tables_migrated"] += 1; self.stats["total_rows"] += n
MigratedStats(st, n) ==
    [st EXCEPT !.tables_migrated = @ + 1, !.total_rows = @ + n]

\* self.stats["failed_tables"].append(table_name)
FailStats(st, t) == [st EXCEPT !.failed_tables = Append(@, t)]

\* The destination database before the first run: every table empty, its
\* triggers enabled, its sequence never set.
EmptyDb ==
    [rows |-> [t \in UserTables |-> <<>>],
     trig |-> [t \in UserTables |-> TRUE],
     seq  |-> [t \in UserTables |-> 0]]

----------------------------------------------------------------------------
\* The destination session, as DatabaseConnection drives it.

\* str.lower() on the inputs of the model.
Lower(s) == IF s = "YES" THEN "yes" ELSE s

\* execute(SELECT EXISTS (...)) on the destination catalog
PgSelect(s) == IF s.txn = "aborted" THEN s ELSE [s EXCEPT !.txn = "active"]

\* execute('ALTER TABLE t DISABLE|ENABLE TRIGGER ALL')
PgAlter(s, t, enabled) ==
    IF s.txn = "aborted" THEN s
    ELSE [s EXCEPT !.work.trig[t] = enabled, !.txn = "active"]

\* Faulty variant: the insert takes the row whether or not its key is present
PgInsertKeepsConflicts(s, t, row, unique) ==
    IF row.kind = "client" THEN s
    ELSE IF s.txn = "aborted" THEN s
    ELSE IF row.kind = "server" THEN [s EXCEPT !.txn = "aborted"]
    ELSE [s EXCEPT !.work.rows[t] = Append(@, row.k), !.txn = "active"]

\* execute(INSERT ... ON CONFLICT DO NOTHING) for one row, inside the
\* try/except of the row loop: whatever is raised is swallowed.
PgInsert(s, t, row, unique) ==
    IF row.kind = "client" THEN s
    ELSE IF s.txn = "aborted" THEN s
    ELSE IF row.kind = "server" THEN [s EXCEPT !.txn = "aborted"]
    ELSE IF unique /\ InSeq(row.k, s.work.rows[t])
         THEN [s EXCEPT !.txn = "active"]
    ELSE [s EXCEPT !.work.rows[t] = Append(@, row.k), !.txn = "active"]

\* for row in rows: try: execute(insert) except: continue
RECURSIVE InsertRows(_, _, _, _)
InsertRows(s, t, rows, unique) ==
    IF rows = <<>> THEN s
    ELSE InsertRows(PgInsert(s, t, Head(rows), unique), t, Tail(rows), unique)

\* connection.commit(): COMMIT of an aborted transaction is a rollback.
PgCommit(s) ==
    IF s.txn = "aborted" THEN [s EXCEPT !.work = s.durable, !.txn = "idle"]
    ELSE [s EXCEPT !.durable = s.work, !.txn = "idle"]

\* connection.rollback()
PgRollback(s) == [s EXCEPT !.work = s.durable, !.txn = "idle"]

\* connection.close(): the open transaction is discarded.
PgClose(s) == [s EXCEPT !.work = s.durable, !.txn = "idle"]

\* execute(SELECT setval(pg_get_serial_sequence(t, pk), COALESCE(MAX(pk), 1)))
\* inside update_sequences' try/except: whatever is raised is swallowed.
PgSetval(s, t, pk) ==
    IF s.txn = "aborted" THEN s
    ELSE IF pk = "uuid" THEN [s EXCEPT !.txn = "aborted"]
    ELSE [s EXCEPT !.work.seq[t] =
                      IF s.work.rows[t] = <<>> THEN 1 ELSE SeqMax(s.work.rows[t]),
                   !.txn = "active"]

\* update_sequences: one setval per primary-key column; nothing in preview.
RECURSIVE update_sequences(_, _, _)
update_sequences(s, t, keys) ==
    IF keys = <<>> \/ dry_run THEN s
    ELSE update_sequences(PgSetval(s, t, Head(keys)), t, Tail(keys))

SetvalLog(t, keys) ==
    IF dry_run THEN <<>> ELSE [i \in 1..Len(keys) |-> <<t, "setval">>]

----------------------------------------------------------------------------
\* Source side.

\* get_tables with no --tables / --skip-tables: the catalog in name order
\* without the framework's own tables.
SystemTables == {"django_migrations", "django_session", "django_admin_log"}
get_tables(all) == SelectOut(all, SystemTables)

\* SELECT COUNT(*) FROM t
get_table_info(t) == Len(src[t])

\* SELECT ... LIMIT limit OFFSET off
Fetch(rows, limit, off) == SubSeq(rows, off + 1, Min(off + limit, Len(rows)))

\* One iteration of the batch loop that meets no error: the inserts of the
\* fetched rows and the commit.
BatchStep(s, t, rows, unique) == PgCommit(InsertRows(s, t, rows, unique))

BatchLog(t, rows) ==
    [i \in 1..Len(rows) |-> <<t, "insert">>] \o << <<t, "commit">> >>

\* The whole batch loop of migrate_table when nothing raises, as a function
\* of the batch size.
RECURSIVE CopyLoop(_, _, _, _, _, _)
CopyLoop(s, t, rows, off, bs, unique) ==
    IF off >= Len(rows) THEN s
    ELSE LET batch == Fetch(rows, bs, off) IN
         IF batch = <<>> THEN s
         ELSE CopyLoop(BatchStep(s, t, batch, unique), t, rows, off + bs, bs, unique)

Unique(t) == pks[t] # <<>>
CurTable == tables[idx]


----------------------------------------------------------------------------
\* Decisions of run() and migrate_table().

\* if not self.dry_run: ... input(...)
NeedsConfirm == ~dry_run

\* Faulty variant: the preview return is missing
PreviewModeIgnored == FALSE

\* migrate_table's "if self.dry_run:" after the empty-table return
PreviewMode == dry_run

\* Faulty variant: any answer but "no" goes ahead
AcceptedUnlessNo(inp) == inp # "no"

\* confirm.lower() != "yes" cancels the run
Accepted(inp) == Lower(inp) = "yes"

\* Faulty variant: the loop stops at the first table that returned False
LoopStopsOnFailure(i, ts, res) == i < Len(ts) /\ res # "false"

\* for i, table in enumerate(tables, 1): the loop goes on while a table is
\* left, whatever the previous migrate_table returned.
LoopContinues(i, ts, res) == i < Len(ts)

\* the handler's "if not self.dry_run: self.postgres_conn.rollback()"
HandlerRollsBack == ~dry_run

\* DatabaseConnection.close for one connection object
Close(c) == IF c = "open" THEN "closed" ELSE c

\* Faulty variant: the destination connection is closed only when the source
\* connection was not
disconnect_databases_first_only(m, p) ==
    << IF m # "none" THEN Close(m) ELSE m,
       IF m = "none" /\ p # "none" THEN Close(p) ELSE p >>

\* disconnect_databases: close whichever connection objects exist
disconnect_databases(m, p) ==
    << IF m # "none" THEN Close(m) ELSE m,
       IF p # "none" THEN Close(p) ELSE p >>

----------------------------------------------------------------------------
Init ==
    /\ dry_run \in BOOLEAN
    /\ batch_size \in 1..MaxBatch
    /\ all_tables \in Catalogs
    /\ src \in [UserTables -> RowSeqs]
    /\ SumLen(src, UserTables) <= MaxRows
    /\ pks \in [UserTables -> PkChoices]
    /\ destExists \in SUBSET UserTables
    /\ \A t \in UserTables :
          \* a table outside the source catalog has no rows and is not looked
          \* up in the destination; the keys and the fate of the rows of a
          \* table the destination lacks are never consulted
          /\ ~InSeq(t, all_tables) => src[t] = <<>> /\ t \notin destExists
          /\ t \notin destExists =>
                pks[t] = <<>> /\ \A i \in 1..Len(src[t]) : src[t][i].kind = "ok"
    /\ pg = [durable |-> EmptyDb, work |-> EmptyDb, txn |-> "idle"]
    /\ mysql_conn = "none"
    /\ postgres_conn = "none"
    /\ stats = InitStats
    /\ pc = "connect"
    /\ tables = <<>>
    /\ idx = 0
    /\ confirm = ""
    /\ runExit = "none"
    /\ row_count = Unbound
    /\ offset = 0
    /\ migrated_rows = 0
    /\ result = "none"
    /\ entry = InitStats
    /\ destLog = <<>>
    /\ called = <<>>
    /\ faulted = FALSE
    /\ runNo = 1
    /\ first = [done |-> FALSE, db |-> EmptyDb, faulted |-> FALSE, exit |-> "none"]

\* run(): connect_databases.  MySQL first, then PostgreSQL; a failing
\* connect raises out of run through the finally clause.
Connect ==
    /\ pc = "connect"
    /\ \E o \in {"ok", "mysql_fail", "pg_fail"} :
         /\ mysql_conn' = IF o = "mysql_fail" THEN "failed" ELSE "open"
         /\ postgres_conn' = CASE o = "mysql_fail" -> "none"
                               [] o = "pg_fail" -> "failed"
                               [] OTHER -> "open"
         /\ pc' = IF o = "ok" THEN "get_tables" ELSE "finally"
         /\ runExit' = IF o = "ok" THEN runExit ELSE "raised"
         /\ faulted' = (faulted \/ o # "ok")
    /\ UNCHANGED << config, pg, stats, tables, idx, confirm, locals,
                    destLog, called, runNo, first >>

\* run(): get_tables, and the return when nothing is left to migrate.
GetTables ==
    /\ pc = "get_tables"
    /\ tables' = get_tables(all_tables)
    /\ IF tables' = <<>>
       THEN pc' = "finally" /\ runExit' = "no_tables"
       ELSE pc' = (IF NeedsConfirm THEN "confirm" ELSE "loop") /\ runExit' = runExit
    /\ UNCHANGED << config, pg, mysql_conn, postgres_conn, stats, idx, confirm,
                    locals, destLog, called, faulted, runNo, first >>

\* run(): the confirmation prompt of a non-preview run.
Confirm ==
    /\ pc = "confirm"
    /\ \E inp \in Inputs :
         /\ confirm' = inp
         /\ IF Accepted(inp)
            THEN pc' = "loop" /\ runExit' = runExit
            ELSE pc' = "finally" /\ runExit' = "cancelled"
    /\ UNCHANGED << config, pg, mysql_conn, postgres_conn, stats, tables, idx,
                    locals, destLog, called, faulted, runNo, first >>

\* run(): the for loop over the enumerated tables; after the last table the
\* summary is printed and run returns through the finally clause.
LoopNext ==
    /\ pc = "loop"
    /\ IF LoopContinues(idx, tables, result)
       THEN /\ idx' = idx + 1
            /\ called' = Append(called, tables[idx + 1])
            /\ entry' = stats
            /\ row_count' = Unbound
            /\ offset' = 0
            /\ migrated_rows' = 0
            /\ result' = "none"
            /\ pc' = "mt_begin"
            /\ runExit' = runExit
       ELSE /\ pc' = "finally"
            /\ runExit' = "normal"
            /\ UNCHANGED << idx, called, locals >>
    /\ UNCHANGED << config, pg, mysql_conn, postgres_conn, stats, tables,
                    confirm, destLog, faulted, runNo, first >>

\* migrate_table, from its entry to the DISABLE TRIGGER statement:
\* get_table_info, the empty-table return, the preview return, the
\* existence check and the missing-table return.
MT_Begin ==
    /\ pc = "mt_begin"
    /\ \E info_ok \in BOOLEAN :
         IF ~info_ok
         THEN /\ pc' = "mt_except"
              /\ faulted' = TRUE
              /\ UNCHANGED << row_count, stats, result, destLog, pg >>
         ELSE
         /\ row_count' = get_table_info(CurTable)
         /\ faulted' = faulted
         /\ CASE row_count' = 0 ->
                   /\ stats' = SkipStats(stats)
                   /\ result' = "true"
                   /\ pc' = "loop"
                   /\ UNCHANGED << destLog, pg >>
              [] row_count' # 0 /\ PreviewMode ->
                   /\ stats' = MigratedStats(stats, row_count')
                   /\ result' = "true"
                   /\ pc' = "loop"
                   /\ UNCHANGED << destLog, pg >>
              [] row_count' # 0 /\ ~PreviewMode /\ pg.txn = "aborted" ->
                   /\ destLog' = Append(destLog, <<CurTable, "exists">>)
                   /\ pc' = "mt_except"
                   /\ UNCHANGED << stats, result, pg >>
              [] row_count' # 0 /\ ~PreviewMode /\ pg.txn # "aborted"
                    /\ CurTable \notin destExists ->
                   /\ destLog' = Append(destLog, <<CurTable, "exists">>)
                   /\ pg' = PgSelect(pg)
                   /\ stats' = SkipStats(stats)
                   /\ result' = "false"
                   /\ pc' = "loop"
              [] OTHER ->
                   /\ destLog' = destLog \o << <<CurTable, "exists">>,
                                               <<CurTable, "disable">> >>
                   /\ pg' = PgAlter(PgSelect(pg), CurTable, FALSE)
                   /\ pc' = "mt_batch"
                   /\ UNCHANGED << stats, result >>
    /\ UNCHANGED << config, mysql_conn, postgres_conn, tables, idx, confirm,
                    runExit, offset, migrated_rows, entry, called, runNo, first >>

\* migrate_table: one iteration of the while loop: fetch a batch from the
\* source, insert its rows, commit.  The fetch or the commit may raise.
MT_Batch ==
    /\ pc = "mt_batch"
    /\ offset < row_count
    /\ LET batch == Fetch(src[CurTable], batch_size, offset) IN
       \E o \in {"ok", "fetch_fail", "commit_fail"} :
         CASE o = "fetch_fail" ->
                /\ pc' = "mt_except"
                /\ faulted' = TRUE
                /\ UNCHANGED << pg, destLog, migrated_rows, offset >>
           [] o = "commit_fail" ->
                /\ batch # <<>>
                /\ pg' = InsertRows(pg, CurTable, batch, Unique(CurTable))
                /\ destLog' = destLog \o BatchLog(CurTable, batch)
                /\ pc' = "mt_except"
                /\ faulted' = TRUE
                /\ UNCHANGED << migrated_rows, offset >>
           [] OTHER ->
                IF batch = <<>>
                THEN /\ offset' = row_count
                     /\ UNCHANGED << pg, destLog, migrated_rows, pc, faulted >>
                ELSE /\ pg' = BatchStep(pg, CurTable, batch, Unique(CurTable))
                     /\ destLog' = destLog \o BatchLog(CurTable, batch)
                     /\ migrated_rows' = migrated_rows + Len(batch)
                     /\ offset' = offset + batch_size
                     /\ UNCHANGED << pc, faulted >>
    /\ UNCHANGED << config, mysql_conn, postgres_conn, stats, tables, idx,
                    confirm, runExit, row_count, result, entry, called,
                    runNo, first >>

\* migrate_table after the loop: ENABLE TRIGGER, update_sequences, the
\* statistics, return True.
MT_Finish ==
    /\ pc = "mt_batch"
    /\ offset >= row_count
    /\ pg' = update_sequences(PgAlter(pg, CurTable, TRUE), CurTable, pks[CurTable])
    /\ destLog' = destLog \o << <<CurTable, "enable">> >>
                          \o SetvalLog(CurTable, pks[CurTable])
    /\ stats' = MigratedStats(stats, migrated_rows)
    /\ result' = "true"
    /\ pc' = "loop"
    /\ UNCHANGED << config, mysql_conn, postgres_conn, tables, idx, confirm,
                    runExit, row_count, offset, migrated_rows, entry, called,
                    faulted, runNo, first >>

\* migrate_table's except clause: record the table as failed, roll the
\* destination back (not in preview), return False.  A rollback that raises
\* leaves migrate_table and run as an exception.
MT_Except ==
    /\ pc = "mt_except"
    /\ stats' = FailStats(stats, CurTable)
    /\ IF HandlerRollsBack
       THEN /\ destLog' = Append(destLog, <<CurTable, "rollback">>)
            /\ \E rb_ok \in BOOLEAN :
                 IF rb_ok
                 THEN /\ pg' = PgRollback(pg)
                      /\ result' = "false"
                      /\ pc' = "loop"
                      /\ UNCHANGED << runExit, faulted >>
                 ELSE /\ pc' = "finally"
                      /\ runExit' = "raised"
                      /\ faulted' = TRUE
                      /\ UNCHANGED << pg, result >>
       ELSE /\ result' = "false"
            /\ pc' = "loop"
            /\ UNCHANGED << destLog, pg, runExit, faulted >>
    /\ UNCHANGED << config, mysql_conn, postgres_conn, tables, idx, confirm,
                    row_count, offset, migrated_rows, entry, called, runNo, first >>

\* run()'s finally clause: disconnect_databases, then run returns or
\* re-raises.
Finally ==
    /\ pc = "finally"
    /\ mysql_conn' = disconnect_databases(mysql_conn, postgres_conn)[1]
    /\ postgres_conn' = disconnect_databases(mysql_conn, postgres_conn)[2]
    /\ pg' = IF postgres_conn = "open" /\ postgres_conn' = "closed"
             THEN PgClose(pg) ELSE pg
    /\ pc' = "done"
    /\ first' = IF runNo = 1
                THEN [done |-> TRUE, db |-> pg'.durable, faulted |-> faulted,
                      exit |-> runExit]
                ELSE first
    /\ UNCHANGED << config, stats, tables, idx, confirm, runExit, locals,
                    destLog, called, faulted, runNo >>

\* The script is started a second time with the same arguments on the same
\* two databases, after a first invocation that ran to its summary: a new
\* DataMigrator, new connections.
Rerun ==
    /\ pc = "done"
    /\ runNo = 1
    /\ runExit = "normal"
    /\ runNo' = 2
    /\ mysql_conn' = "none"
    /\ postgres_conn' = "none"
    /\ stats' = InitStats
    /\ pc' = "connect"
    /\ tables' = <<>>
    /\ idx' = 0
    /\ confirm' = ""
    /\ runExit' = "none"
    /\ row_count' = Unbound
    /\ offset' = 0
    /\ migrated_rows' = 0
    /\ result' = "none"
    /\ entry' = InitStats
    /\ destLog' = <<>>
    /\ called' = <<>>
    /\ faulted' = FALSE
    /\ UNCHANGED << config, pg, first >>

Next ==
    \/ Connect
    \/ GetTables
    \/ Confirm
    \/ LoopNext
    \/ MT_Begin
    \/ MT_Batch
    \/ MT_Finish
    \/ MT_Except
    \/ Finally
    \/ Rerun

Spec == Init /\ [][Next]_vars

\* The same program over a source that holds the single table "accounts"
\* with MaxRows + 1 rows, present in the destination: the smallest table
\* that is copied in more than one batch of more than one row.
LongRowSeqs ==
    { [i \in 1..(MaxRows + 1) |-> [k |-> i, kind |-> f[i]]] :
        f \in [1..(MaxRows + 1) -> Kinds] }

InitOneTable ==
    /\ dry_run \in BOOLEAN
    /\ batch_size \in 1..MaxBatch
    /\ all_tables = <<"accounts", "django_session">>
    /\ src \in [UserTables -> RowSeqs \cup LongRowSeqs]
    /\ src["accounts"] \in LongRowSeqs
    /\ src["orders"] = <<>>
    /\ pks \in [UserTables -> PkChoices]
    /\ pks["orders"] = <<>>
    /\ destExists = {"accounts"}
    /\ pg = [durable |-> EmptyDb, work |-> EmptyDb, txn |-> "idle"]
    /\ mysql_conn = "none"
    /\ postgres_conn = "none"
    /\ stats = InitStats
    /\ pc = "connect"
    /\ tables = <<>>
    /\ idx = 0
    /\ confirm = ""
    /\ runExit = "none"
    /\ row_count = Unbound
    /\ offset = 0
    /\ migrated_rows = 0
    /\ result = "none"
    /\ entry = InitStats
    /\ destLog = <<>>
    /\ called = <<>>
    /\ faulted = FALSE
    /\ runNo = 1
    /\ first = [done |-> FALSE, db |-> EmptyDb, faulted |-> FALSE, exit |-> "none"]

SpecOneTable == InitOneTable /\ [][Next]_vars

----------------------------------------------------------------------------
\* Vocabulary of the properties.

\* The statements issued to the destination for table t, in order.
OpsOf(t) ==
    LET own == SelectSeq(destLog, LAMBDA e : e[1] = t)
    IN [i \in 1..Len(own) |-> own[i][2]]

Issued(t, op) == \E i \in 1..Len(destLog) : destLog[i] = <<t, op>>

\* migrate_table has been called with t and has returned True or False.
Returned(t) ==
    /\ InSeq(t, called)
    /\ t = tables[idx] => result # "none"

\* The last call of migrate_table has ended (returned or raised) and its
\* locals are still in view.
AfterCall == idx >= 1 /\ pc \in {"loop", "finally", "done"}

WriteOps == {"disable", "insert", "commit", "enable", "setval"}

\* The durable destination when this invocation started.
StartDb == IF runNo = 1 THEN EmptyDb ELSE first.db

NoDup(s) == \A i, j \in 1..Len(s) : s[i] = s[j] => i = j

----------------------------------------------------------------------------
\* C1: in a non-preview run, every table for which migrate_table issued
\* DISABLE TRIGGER ALL has had ENABLE TRIGGER ALL issued after it by the time
\* migrate_table has returned, on the normal path and on the error paths.
C1_EnableOnEveryReturn ==
    ~dry_run =>
        \A t \in UserTables :
            (Returned(t) /\ Issued(t, "disable")) =>
                \E i, j \in 1..Len(destLog) :
                    /\ i < j
                    /\ destLog[i] = <<t, "disable">>
                    /\ destLog[j] = <<t, "enable">>

\* C2: in preview mode no write statement reaches the destination, the
\* destination is left as it was, and every non-empty table that is
\* previewed adds exactly its source row count to total_rows.
C2_PreviewNoWrites ==
    dry_run =>
        /\ \A i \in 1..Len(destLog) : destLog[i][2] \notin WriteOps
        /\ pg.durable = EmptyDb
        /\ pg.work = EmptyDb
        /\ (AfterCall /\ result = "true" /\ row_count > 0) =>
              /\ stats.total_rows = entry.total_rows + Len(src[CurTable])
              /\ stats.tables_migrated = entry.tables_migrated + 1

\* A non-empty table is previewed after an earlier table of the same preview
\* run failed in get_table_info.
C2_Witness ==
    /\ dry_run
    /\ pc = "loop"
    /\ result = "true"
    /\ row_count > 0
    /\ stats.failed_tables # <<>>

\* C3 as stated: in a non-preview run nothing is done to the destination
\* unless the operator typed exactly "yes", and a run that was not confirmed
\* calls migrate_table for no table and leaves the destination unchanged.
C3_LiteralYesBeforeMutation ==
    ~dry_run =>
        /\ (destLog # <<>> \/ called # <<>> \/ pg.durable # StartDb) => confirm = "yes"
        /\ runExit = "cancelled" =>
              called = <<>> /\ destLog = <<>> /\ pg.durable = StartDb

\* C3 amended: the confirmation that opens the way to the destination is any
\* input whose lower-cased form is "yes".
C3_ConfirmBeforeMutation ==
    ~dry_run =>
        /\ (destLog # <<>> \/ called # <<>> \/ pg.durable # StartDb) =>
              Lower(confirm) = "yes"
        /\ runExit = "cancelled" =>
              /\ Lower(confirm) # "yes"
              /\ called = <<>> /\ destLog = <<>> /\ pg.durable = StartDb

\* Rows are inserted after the operator typed "YES".
C3_Witness ==
    /\ ~dry_run
    /\ confirm = "YES"
    /\ \E t \in UserTables : Issued(t, "insert") /\ pg.durable.rows[t] # <<>>

\* Both invocations ran their copy to the end with no environment fault
\* (no failing connect, source query, commit or rollback).
RanTwice ==
    /\ runNo = 2
    /\ pc = "done"
    /\ runExit # "cancelled"
    /\ ~first.faulted
    /\ ~faulted

\* C4 as stated: the second of two copies in succession raises no error and
\* leaves every destination table with the rows the first copy left, no row
\* twice.
C4_SecondRunAddsNothing ==
    RanTwice =>
        /\ runExit = "normal"
        /\ \A t \in UserTables :
              /\ pg.durable.rows[t] = first.db.rows[t]
              /\ NoDup(pg.durable.rows[t])

\* C4 amended: the same for every destination table that has a uniqueness
\* constraint on the copied key; such a table never holds a key twice, at
\* any point of any run.
C4_SecondRunAddsNothingUnderUniqueKey ==
    /\ \A t \in UserTables :
          Unique(t) => NoDup(pg.durable.rows[t]) /\ NoDup(pg.work.rows[t])
    /\ RanTwice =>
          /\ runExit = "normal"
          /\ \A t \in UserTables :
                Unique(t) => pg.durable.rows[t] = first.db.rows[t]

\* The second copy has run over a uniquely keyed table that already held
\* every source row.
C4_Witness ==
    /\ RanTwice
    /\ ~dry_run
    /\ \E t \in UserTables :
          /\ Unique(t)
          /\ Len(first.db.rows[t]) = MaxRows
          /\ Issued(t, "insert")
          /\ pg.durable.rows[t] = first.db.rows[t]

\* C5: copying a table with batch size 1 and with a batch size equal to its
\* row count, from the same destination state, ends with the same rows in
\* the destination table.
C5_BatchSizeIrrelevant ==
    (pc = "mt_batch" /\ offset = 0) =>
        CopyLoop(pg, CurTable, src[CurTable], 0, 1, Unique(CurTable)).durable.rows[CurTable]
        = CopyLoop(pg, CurTable, src[CurTable], 0, row_count,
                   Unique(CurTable)).durable.rows[CurTable]

\* C6: when a table has been copied with no error but failing row inserts,
\* every source row whose own insert is acceptable is in the destination,
\* committed, and the table is not recorded as failed.
C6_OnlyFailedRowSkipped ==
    (~dry_run /\ AfterCall /\ result = "true" /\ row_count > 0) =>
        /\ \A i \in 1..row_count :
              src[CurTable][i].kind = "ok" =>
                  InSeq(src[CurTable][i].k, pg.durable.rows[CurTable])
        /\ ~InSeq(CurTable, stats.failed_tables)

\* C7: when run has returned or re-raised, no connection is open.
C7_ConnectionsClosed ==
    /\ pc = "done" => mysql_conn # "open" /\ postgres_conn # "open"
    /\ pc \notin {"connect", "finally", "done"} =>
          mysql_conn = "open" /\ postgres_conn = "open"

\* run re-raised an exception that escaped while the second table was
\* copied; both connections had been opened and are closed.
C7_Witness ==
    /\ pc = "done"
    /\ runExit = "raised"
    /\ idx = 2
    /\ mysql_conn = "closed"
    /\ postgres_conn = "closed"

\* C8: migrate_table is called for the enumerated tables one by one in
\* enumeration order; a run that reaches its summary has called it for every
\* table, whatever the calls returned; the loop is left early only by an
\* exception that escapes migrate_table (a rollback that raises).
C8_EveryTableOnceInOrder ==
    /\ called = SubSeq(tables, 1, idx)
    /\ runExit = "normal" => called = tables
    /\ (pc = "loop" /\ result = "false" /\ idx < Len(tables)) => runExit = "none"
    /\ (runExit = "raised" /\ idx >= 1) =>
          destLog # <<>> /\ destLog[Len(destLog)] = <<CurTable, "rollback">>

\* A run reached its summary after its first table failed and its second
\* table was copied.
C8_Witness ==
    /\ runExit = "normal"
    /\ Len(tables) = 2
    /\ stats.failed_tables = <<tables[1]>>
    /\ stats.tables_migrated = 1
    /\ Issued(tables[2], "insert")

\* C9: in a non-preview run a table with rows that the destination lacks is
\* counted as skipped and not as failed, migrate_table returns False, and
\* the existence check is the only statement issued for it.
C9_MissingTableSkipped ==
    (~dry_run /\ AfterCall /\ result # "none" /\ row_count > 0
        /\ CurTable \notin destExists) =>
        /\ result = "false"
        /\ stats = SkipStats(entry)
        /\ OpsOf(CurTable) = <<"exists">>

\* C10: a table whose source row count is zero has no statement issued to
\* the destination, is counted as skipped and nothing else, and
\* migrate_table returns True; in preview and non-preview runs alike.
C10_EmptyTableUntouched ==
    (AfterCall /\ row_count = 0) =>
        /\ Len(src[CurTable]) = 0
        /\ result = "true"
        /\ stats.tables_skipped = entry.tables_skipped + 1
        /\ stats.tables_migrated = entry.tables_migrated
        /\ stats.total_rows = entry.total_rows
        /\ stats.failed_tables = entry.failed_tables
        /\ OpsOf(CurTable) = <<>>

\* An empty table has been skipped in a non-preview run in which an earlier
\* table was copied.
C10_Witness ==
    /\ ~dry_run
    /\ pc = "loop"
    /\ idx = 2
    /\ row_count = 0
    /\ result = "true"
    /\ Issued(tables[1], "insert")

\* An empty table has been skipped in a preview run.
C10_WitnessPreview ==
    /\ dry_run
    /\ pc = "loop"
    /\ row_count = 0
    /\ result = "true"

\* The number of entries of s equal to x.
Count(s, x) == Cardinality({i \in 1..Len(s) : s[i] = x})

\* migrate_table returned False for a table it had begun to copy: the
\* handler has rolled back after an exception in the batch loop.
StoppedPartWay ==
    /\ ~dry_run
    /\ AfterCall
    /\ result = "false"
    /\ Issued(CurTable, "disable")

\* C11: the destination is committed once per batch.  When the copy of a
\* table stops at an exception after k batches were committed and the handler
\* has rolled back, the acceptable rows of those k batches are in the
\* durable destination, no row of a later batch has been added to it, and
\* nothing is left uncommitted.
C11_CommittedBatchesRemain ==
    StoppedPartWay =>
        LET t == CurTable
            done == Min(offset, row_count)
        IN /\ \A i \in 1..done :
                 src[t][i].kind = "ok" => InSeq(src[t][i].k, pg.durable.rows[t])
           /\ \A i \in (done + 1)..row_count :
                 InSeq(src[t][i].k, pg.durable.rows[t]) =>
                     InSeq(src[t][i].k, StartDb.rows[t])
           /\ pg.work = pg.durable
           /\ Count(OpsOf(t), "commit") \in
                 {offset \div batch_size, (offset \div batch_size) + 1}

\* C12: a failing sequence resync touches nothing else.  The table is
\* counted as migrated with its rows and is not recorded as failed, a setval
\* is issued for each of its primary-key columns, and, the environment
\* failing nowhere, no table of the run is recorded as failed: the tables
\* after it are handled as they would have been without the failure.
C12_SetvalFailureIsLocal ==
    ~dry_run =>
        /\ (AfterCall /\ result = "true" /\ row_count > 0) =>
              /\ stats = MigratedStats(entry, migrated_rows)
              /\ Count(OpsOf(CurTable), "setval") = Len(pks[CurTable])
        /\ ~faulted => stats.failed_tables = <<>>

\* The rows of table t the destination holds durably beyond those it held
\* when the run started.
RowsAdded(t) == Len(pg.durable.rows[t]) - Len(StartDb.rows[t])

\* C13: for a table copied successfully in a non-preview run, the amount
\* added to total_rows is the number of rows the copy added to the
\* destination table.
C13_TotalRowsCountsRowsAdded ==
    (~dry_run /\ AfterCall /\ result = "true" /\ row_count > 0) =>
        stats.total_rows - entry.total_rows = RowsAdded(CurTable)

\* C14: when a non-preview run has ended and both connections are closed,
\* every table the run copied has its triggers enabled in the committed
\* destination state.
C14_TriggersEnabledAfterRun ==
    (~dry_run /\ pc = "done") =>
        \A t \in UserTables :
            (Issued(t, "enable") /\ ~InSeq(t, stats.failed_tables)) =>
                pg.durable.trig[t]

====
